---- MODULE Spec2Model ----
(***************************************************************************)
(* The file-by-file declaration merge of pygccxml's project_reader_t       *)
(* (src/pygccxml/parser/project_reader.py) over the type model of          *)
(* src/pygccxml/declarations/cpptypes.py.                                  *)
(*                                                                         *)
(* Declarations are heap objects addressed by an integer id (Python's      *)
(* id()); 0 stands for None.  Declared-type wrappers (declarated_t) are    *)
(* heap objects too: a type tree names a wrapper by its id and the         *)
(* variable wtarget holds each wrapper's current declaration.              *)
(*                                                                         *)
(* Three specifications: Spec is the merge driver, TypeSpec builds a type  *)
(* of the grammar, clones it and rewrites the clone, ReadSpec is the       *)
(* choice of the parse function in read_files.                             *)
(***************************************************************************)
EXTENDS Integers, Sequences, FiniteSets, TLC

\* Number of files handed to read_files.
NFiles == 3

\* The declarations one parse can produce, by slot: a namespace n, the
\* classes A, B1, B2 and D, two free functions named f, a variable v, and
\* a namespace m nested in n.
\* A type of a declaration may hold two declarated_t wrappers: the ids of
\* the slots 7 and 8 name the wrappers of the variable's type.
Slots == << [kind |-> "namespace", name |-> "n"],
            [kind |-> "class",     name |-> "A"],
            [kind |-> "class",     name |-> "B1"],
            [kind |-> "class",     name |-> "B2"],
            [kind |-> "class",     name |-> "D"],
            [kind |-> "function",  name |-> "f"],
            [kind |-> "function",  name |-> "f"],
            [kind |-> "variable",  name |-> "v"],
            [kind |-> "namespace", name |-> "m"] >>

PerFile == Len(Slots)

Id(f, s) == (f - 1) * PerFile + s

Ids == 1 .. (NFiles * PerFile)

FileOf(id) == ((id - 1) \div PerFile) + 1

SlotOf(id) == ((id - 1) % PerFile) + 1

None == 0

Range(s) == { s[i] : i \in 1 .. Len(s) }

(***************************************************************************)
(* The type model (cpptypes.py).  A type is a record tagged by its class.  *)
(***************************************************************************)
NoType == [k |-> "None"]

fundamental_t(name) == [k |-> "fundamental", name |-> name]

unknown_t == [k |-> "unknown"]

declarated_t(w) == [k |-> "declarated", w |-> w]

pointer_t(base) == [k |-> "pointer", base |-> base]

const_t(base) == [k |-> "const", base |-> base]

reference_t(base) == [k |-> "reference", base |-> base]

volatile_t(base) == [k |-> "volatile", base |-> base]

array_t(base, size) == [k |-> "array", base |-> base, size |-> size]

free_function_type_t(return_type, arguments_types) ==
    [k |-> "free_function", return_type |-> return_type,
     arguments_types |-> arguments_types]

member_function_type_t(class_inst, return_type, arguments_types, has_const) ==
    [k |-> "member_function", class_inst |-> class_inst,
     return_type |-> return_type, arguments_types |-> arguments_types,
     has_const |-> has_const]

\* member_variable_type_t is a compound_t whose base is the owning class.
member_variable_type_t(class_inst, variable_type) ==
    [k |-> "member_variable", base |-> class_inst,
     variable_type |-> variable_type]

\* isinstance( t, compound_t )
IsCompound(t) ==
    t.k \in {"volatile", "const", "pointer", "reference", "array",
             "member_variable"}

\* isinstance( t, calldef_type_t )
IsCalldefType(t) == t.k \in {"free_function", "member_function"}

(***************************************************************************)
(* Declarations.  Only the attributes the merge inspects are kept.         *)
(***************************************************************************)
NoDecl ==
    [kind |-> "none", name |-> "", line |-> 0, parent |-> None,
     declarations |-> <<>>, bases |-> <<>>, derived |-> <<>>,
     return_type |-> NoType, arguments_types |-> <<>>, type |-> NoType]

hierarchy_info_t(related_class, access) ==
    [related_class |-> related_class, access |-> access]

\* isinstance( decl, calldef_t )
IsCalldef(decl) == decl.kind = "function"

(***************************************************************************)
(* The parsing collaborator: what one file's parse yields.  A shape says   *)
(* which classes the header shows to this translation unit (hier), whether *)
(* class A sits at its other source line (moved: conflicting preprocessor  *)
(* definitions), and which free functions and variables it declares.       *)
(***************************************************************************)
Hiers == {"A", "AB1", "AB2", "diamond", "AD"}

\* vPtrA is  A * v;  vMemA is  A * A::* v;  vMemFn is  void (A::* v)( A );
\* m_fA and m_fInt declare  void f( A )  and  void f( int )  inside n::m.
Funs == {"none", "fA", "fInt", "fA_fInt", "vPtrA", "vMemA", "vMemFn",
         "m_fA", "m_fInt"}

\* The header puts its functions in the nested namespace m.
InNested(funs) == funs \in {"m_fA", "m_fInt"}

Scopes == {"ns", "top"}

\* A header that declares f or v declares class A alone beside them, and
\* the units that see A at its other line use A alone or A with B1.
Shapes ==
    { p \in [hier : Hiers, moved : BOOLEAN, funs : Funs] :
        /\ p.funs # "none" => p.hier = "A"
        /\ p.moved => (p.hier \in {"A", "AB1"} /\ p.funs \in {"none", "fA", "vPtrA"}) }

ClassSlots(hier) ==
    CASE hier = "A"       -> <<2>>
      [] hier = "AB1"     -> <<2, 3>>
      [] hier = "AB2"     -> <<2, 4>>
      [] hier = "diamond" -> <<2, 3, 4, 5>>
      [] hier = "AD"      -> <<2, 5>>

\* "AD" is the header seen with D's base list compiled out.
BaseSlots(hier, s) ==
    CASE hier \in {"AB1", "diamond"} /\ s = 3 -> <<2>>
      [] hier \in {"AB2", "diamond"} /\ s = 4 -> <<2>>
      [] hier = "diamond" /\ s = 5            -> <<3, 4>>
      [] OTHER                                -> <<>>

DerivedSlots(hier, s) ==
    CASE hier = "AB1" /\ s = 2              -> <<3>>
      [] hier = "AB2" /\ s = 2              -> <<4>>
      [] hier = "diamond" /\ s = 2          -> <<3, 4>>
      [] hier = "diamond" /\ s \in {3, 4}   -> <<5>>
      [] OTHER                              -> <<>>

FunSlots(funs) ==
    CASE funs = "none"    -> <<>>
      [] funs = "fA"      -> <<6>>
      [] funs = "fInt"    -> <<6>>
      [] funs = "fA_fInt" -> <<6, 7>>
      [] funs \in {"vPtrA", "vMemA", "vMemFn"} -> <<8>>
      [] funs = "m_fA"    -> <<6>>
      [] funs = "m_fInt"  -> <<7>>

\* The wrapper a declaration's type carries has the declaration's own id.
ArgTypes(f, funs, s) ==
    CASE funs \in {"fA", "fA_fInt", "m_fA"} /\ s = 6 -> << declarated_t(Id(f, 6)) >>
      [] funs = "fInt" /\ s = 6                      -> << fundamental_t("int") >>
      [] funs \in {"fA_fInt", "m_fInt"} /\ s = 7     -> << fundamental_t("int") >>
      [] OTHER                               -> <<>>

\* The type of the variable v.
VarType(f, funs) ==
    CASE funs = "vPtrA"  -> pointer_t(declarated_t(Id(f, 8)))
      [] funs = "vMemA"  ->
            member_variable_type_t(declarated_t(Id(f, 8)),
                                   pointer_t(declarated_t(Id(f, 7))))
      [] funs = "vMemFn" ->
            pointer_t(member_function_type_t(declarated_t(Id(f, 8)),
                                             fundamental_t("void"),
                                             << declarated_t(Id(f, 7)) >>,
                                             FALSE))
      [] OTHER           -> NoType

\* The slots whose ids name the wrappers the parser built for the file.
WrapperSlots(funs) ==
    CASE funs \in {"fA", "fA_fInt", "m_fA"} -> {6}
      [] funs = "vPtrA"              -> {8}
      [] funs \in {"vMemA", "vMemFn"} -> {7, 8}
      [] OTHER                       -> {}

SlotLine(p, s) == IF s = 2 /\ p.moved THEN 15 ELSE 10 * s

EdgesTo(f, slots) ==
    [i \in 1 .. Len(slots) |-> hierarchy_info_t(Id(f, slots[i]), "public")]

IdsOf(f, slots) == [i \in 1 .. Len(slots) |-> Id(f, slots[i])]

ParsedDecl(f, p, scope, s) ==
    LET present == Range(ClassSlots(p.hier)) \cup Range(FunSlots(p.funs)) \cup {1}
                   \cup (IF InNested(p.funs) THEN {9} ELSE {})
        inNs == IF scope = "ns" THEN ClassSlots(p.hier) ELSE <<>>
    IN  IF s \notin present THEN NoDecl
        ELSE [kind |-> Slots[s].kind,
              name |-> Slots[s].name,
              line |-> SlotLine(p, s),
              parent |-> IF s = 1 \/ (Slots[s].kind = "class" /\ scope = "top")
                         THEN None
                         ELSE IF s \in {6, 7} /\ InNested(p.funs) THEN Id(f, 9)
                         ELSE Id(f, 1),
              declarations |-> IF s = 1
                               THEN IdsOf(f, inNs \o (IF InNested(p.funs) THEN <<9>>
                                                      ELSE FunSlots(p.funs)))
                               ELSE IF s = 9 THEN IdsOf(f, FunSlots(p.funs))
                               ELSE <<>>,
              bases |-> EdgesTo(f, BaseSlots(p.hier, s)),
              derived |-> EdgesTo(f, DerivedSlots(p.hier, s)),
              return_type |-> IF Slots[s].kind = "function"
                              THEN fundamental_t("void") ELSE NoType,
              arguments_types |-> ArgTypes(f, p.funs, s),
              type |-> IF s = 8 THEN VarType(f, p.funs) ELSE NoType]

\* The forest of one parse: its top-level declarations.
ParsedForest(f, p, scope) ==
    IdsOf(f, <<1>> \o (IF scope = "top" THEN ClassSlots(p.hier) ELSE <<>>))

\* Every wrapper the parser builds in these shapes names the file's own A.
ParsedTarget(f, p, w) ==
    IF FileOf(w) = f /\ SlotOf(w) \in WrapperSlots(p.funs)
    THEN Id(f, 2) ELSE None

(***************************************************************************)
(* The declarations package, at the boundary the merge uses.               *)
(***************************************************************************)
RECURSIVE declaration_path(_, _)
\* The names from the outermost parent down to the declaration.
declaration_path(d, id) ==
    IF id = None THEN <<>>
    ELSE Append(declaration_path(d, d[id].parent), d[id].name)

RECURSIVE JoinNames(_)
JoinNames(path) ==
    IF path = <<>> THEN "" ELSE "::" \o Head(path) \o JoinNames(Tail(path))

\* declaration_t.decl_string: the qualified name.
full_name(d, id) == JoinNames(declaration_path(d, id))

RECURSIVE make_flatten(_, _)
\* Pre-order: a declaration, then its children, then its next sibling.
make_flatten(d, decls) ==
    IF decls = <<>> THEN <<>>
    ELSE <<Head(decls)>> \o make_flatten(d, d[Head(decls)].declarations)
                         \o make_flatten(d, Tail(decls))

\* find_declaration( decls, type=namespace_t, name=name, recursive=False )
find_declaration(d, decls, name) ==
    LET hits == { i \in 1 .. Len(decls) :
                    d[decls[i]].kind = "namespace" /\ d[decls[i]].name = name }
    IN  IF hits = {} THEN None
        ELSE decls[CHOOSE i \in hits : \A j \in hits : i <= j]

\* namespace_t.take_parenting: self adopts inst's children.
take_parenting(d, self, inst) ==
    IF self = inst THEN d
    ELSE LET moved == d[inst].declarations
         IN  [x \in DOMAIN d |->
                IF x = self THEN [d[x] EXCEPT !.declarations = @ \o moved]
                ELSE IF x = inst THEN [d[x] EXCEPT !.declarations = <<>>]
                ELSE IF x \in Range(moved) THEN [d[x] EXCEPT !.parent = self]
                ELSE d[x]]

(***************************************************************************)
(* cpptypes.py: the canonical rendering, type_t.decl_string.               *)
(***************************************************************************)
RECURSIVE decl_string(_, _, _)
RECURSIVE JoinArgs(_, _, _)
JoinArgs(d, wt, args) ==
    IF args = <<>> THEN ""
    ELSE IF Len(args) = 1 THEN decl_string(d, wt, args[1])
    ELSE decl_string(d, wt, args[1]) \o "," \o JoinArgs(d, wt, Tail(args))

decl_string(d, wt, t) ==
    CASE t.k = "unknown"     -> "?unknown?"
      [] t.k = "fundamental" -> t.name
      [] t.k = "declarated"  -> full_name(d, wt[t.w])
      [] t.k = "volatile"    -> "volatile " \o decl_string(d, wt, t.base)
      [] t.k = "const"       -> decl_string(d, wt, t.base) \o " const"
      [] t.k = "pointer"     -> decl_string(d, wt, t.base) \o " *"
      [] t.k = "reference"   -> decl_string(d, wt, t.base) \o " &"
      [] t.k = "array"       -> decl_string(d, wt, t.base)
                                \o "[" \o ToString(t.size) \o "]"
      [] t.k = "free_function" ->
            decl_string(d, wt, t.return_type) \o " (*)( "
            \o JoinArgs(d, wt, t.arguments_types) \o " )"
      [] t.k = "member_function" ->
            decl_string(d, wt, t.return_type) \o " ( "
            \o decl_string(d, wt, t.class_inst) \o "::* )( "
            \o JoinArgs(d, wt, t.arguments_types) \o " ) "
            \o (IF t.has_const THEN "const" ELSE "")
      [] t.k = "member_variable" ->
            decl_string(d, wt, t.variable_type) \o " ( "
            \o decl_string(d, wt, t.base) \o "::* )"

\* type_t.__eq__: equal renderings.
TypeEq(d, wt, t1, t2) == decl_string(d, wt, t1) = decl_string(d, wt, t2)

\* calldef_t.function_type() of a free function.
function_type(decl) ==
    free_function_type_t(decl.return_type, decl.arguments_types)

\* calldef_t.__eq__: the same name and the same signature.
CalldefEq(d, wt, a, b) ==
    /\ d[a].name = d[b].name
    /\ TypeEq(d, wt, function_type(d[a]), function_type(d[b]))

(***************************************************************************)
(* The declaration identity key (project_reader.py, create_key).  Every    *)
(* declaration of the model lies in the one header, so a location is its   *)
(* line.                                                                   *)
(***************************************************************************)
create_key(d, id) == << d[id].line, declaration_path(d, id) >>

\* hierarchy_info_t.__eq__: the same access and the same class identity.
HierarchyEq(d, e1, e2) ==
    /\ e1.access = e2.access
    /\ create_key(d, e1.related_class) = create_key(d, e2.related_class)

\* info in infos
HierarchyIn(d, info, infos) ==
    \E i \in 1 .. Len(infos) : HierarchyEq(d, infos[i], info)

\* infos.index( info )
HierarchyIndex(d, info, infos) ==
    CHOOSE i \in 1 .. Len(infos) :
        /\ HierarchyEq(d, infos[i], info)
        /\ \A j \in 1 .. (i - 1) : ~HierarchyEq(d, infos[j], info)

(***************************************************************************)
(* project_reader_t._join_top_namespaces                                   *)
(***************************************************************************)
RECURSIVE JoinTopLoop(_, _, _)
JoinTopLoop(d, answer, other_ns_list) ==
    IF other_ns_list = <<>> THEN [d |-> d, answer |-> answer]
    ELSE LET other_ns == Head(other_ns_list)
             main_ns  == find_declaration(d, answer, d[other_ns].name)
         IN  IF main_ns # None
             THEN JoinTopLoop(take_parenting(d, main_ns, other_ns), answer,
                              Tail(other_ns_list))
             ELSE JoinTopLoop(d, Append(answer, other_ns), Tail(other_ns_list))

RECURSIVE JoinTopExtendLoop(_, _, _)
JoinTopExtendLoop(d, answer, other_ns_list) ==
    IF other_ns_list = <<>> THEN [d |-> d, answer |-> answer]
    ELSE LET other_ns == Head(other_ns_list)
             main_ns  == find_declaration(d, answer, d[other_ns].name)
         IN  IF main_ns # None
             THEN JoinTopExtendLoop(
                     [d EXCEPT ![main_ns].declarations = @ \o d[other_ns].declarations],
                     answer, Tail(other_ns_list))
             ELSE JoinTopExtendLoop(d, Append(answer, other_ns), Tail(other_ns_list))

\* Faulty variant of _join_top_namespaces: the namespace that is found takes the
\* other one's children into its list and their parent links stay.
JoinTopExtendOnly(d, main_ns_list, other_ns_list) ==
    JoinTopExtendLoop(d, main_ns_list, other_ns_list)

\* Faulty variant of _join_top_namespaces: every top-level declaration is appended,
\* a namespace of a known name included.
JoinTopAppendOnly(d, main_ns_list, other_ns_list) ==
    [d |-> d, answer |-> main_ns_list \o other_ns_list]

_join_top_namespaces(d, main_ns_list, other_ns_list) ==
    JoinTopLoop(d, main_ns_list, other_ns_list)

RECURSIVE JoinAllFiles(_, _, _)
\* for file_nss in namespaces: answer = self._join_top_namespaces( answer, file_nss )
JoinAllFiles(d, answer, forests) ==
    IF forests = <<>> THEN [d |-> d, answer |-> answer]
    ELSE LET r == _join_top_namespaces(d, answer, Head(forests))
         IN  JoinAllFiles(r.d, r.answer, Tail(forests))

(***************************************************************************)
(* project_reader_t._join_namespaces.  ddhash maps <<class, name>> to the  *)
(* declarations joined under that name; err is the exception raised.       *)
(***************************************************************************)
HasClass(ddhash, cls) == \E k \in DOMAIN ddhash : k[1] = cls

\* Faulty variant of InJoined: callables are compared by name alone.
InJoinedByName(d, wt, decl, joined) ==
    \E i \in 1 .. Len(joined) : d[joined[i]].name = d[decl].name

\* decl in joined_decls[decl.name]
InJoined(d, wt, decl, joined) ==
    \E i \in 1 .. Len(joined) : joined[i] = decl \/ CalldefEq(d, wt, decl, joined[i])

\* Faulty variant of AssertOneJoined: assert 1 < len( joined_decls[ decl.name ] )
AssertSeveralJoined(joined) == 1 < Len(joined)

\* assert 1 == len( joined_decls[ decl.name ] )
AssertOneJoined(joined) == 1 = Len(joined)

JoinNsStep(acc, wt, decl) ==
    LET d   == acc.d
        cls == d[decl].kind
        key == << d[decl].kind, d[decl].name >>
    IN  IF acc.err # "" THEN acc
        ELSE IF ~HasClass(acc.ddhash, cls)
        THEN [acc EXCEPT !.ddhash = @ @@ (key :> <<decl>>),
                         !.decls = Append(@, decl)]
        ELSE IF key \notin DOMAIN acc.ddhash
        THEN [acc EXCEPT !.decls = Append(@, decl),
                         !.ddhash = @ @@ (key :> <<decl>>)]
        ELSE IF IsCalldef(d[decl])
        THEN IF ~InJoined(d, wt, decl, acc.ddhash[key])
             THEN [acc EXCEPT !.decls = Append(@, decl),
                              !.ddhash[key] = Append(@, decl)]
             ELSE acc
        ELSE IF ~AssertOneJoined(acc.ddhash[key])
        THEN [acc EXCEPT !.err = "AssertionError"]
        ELSE IF cls = "namespace"
        THEN [acc EXCEPT !.d = take_parenting(d, acc.ddhash[key][1], decl)]
        ELSE acc

RECURSIVE JoinNsLoop(_, _, _)
JoinNsLoop(acc, wt, decls) ==
    IF decls = <<>> THEN acc
    ELSE JoinNsLoop(JoinNsStep(acc, wt, Head(decls)), wt, Tail(decls))

\* Returns [d, err]: the heap with nsref.declarations replaced.
_join_namespaces(d, wt, nsref) ==
    LET acc == JoinNsLoop([d |-> d, ddhash |-> <<>>, decls |-> <<>>, err |-> ""],
                          wt, d[nsref].declarations)
    IN  IF acc.err # "" THEN [d |-> acc.d, err |-> acc.err]
        ELSE [d |-> [acc.d EXCEPT ![nsref].declarations = acc.decls],
              err |-> ""]

(***************************************************************************)
(* project_reader_t._join_declarations                                     *)
(***************************************************************************)
RECURSIVE _join_declarations(_, _, _)
RECURSIVE JoinChildren(_, _, _)
JoinChildren(st, wt, decls) ==
    IF decls = <<>> \/ st.err # "" THEN st
    ELSE IF st.d[Head(decls)].kind = "namespace"
    THEN JoinChildren(_join_declarations(st.d, wt, Head(decls)), wt, Tail(decls))
    ELSE JoinChildren(st, wt, Tail(decls))

_join_declarations(d, wt, declref) ==
    LET st == _join_namespaces(d, wt, declref)
    IN  IF st.err # "" THEN st
        ELSE JoinChildren(st, wt, st.d[declref].declarations)

\* Faulty variant of JoinNested: the namespaces of the answer are left unjoined.
JoinNestedSkipped(st, wt, answer) == st

RECURSIVE JoinNested(_, _, _)
\* for ns in answer: if isinstance( ns, namespace_t ): self._join_declarations( ns )
JoinNested(st, wt, answer) ==
    IF answer = <<>> \/ st.err # "" THEN st
    ELSE IF st.d[Head(answer)].kind = "namespace"
    THEN JoinNested(_join_declarations(st.d, wt, Head(answer)), wt, Tail(answer))
    ELSE JoinNested(st, wt, Tail(answer))

(***************************************************************************)
(* project_reader_t._join_class_hierarchy                                  *)
(***************************************************************************)
\* filter( isinstance( decl, class_t ), make_flatten( namespaces ) )
ClassesOf(d, namespaces) ==
    SelectSeq(make_flatten(d, namespaces), LAMBDA id : d[id].kind = "class")

\* Faulty variant of SelectLeaved: the last class seen for a key stays.
SelectLeavedLast(d, leaved_classes, classes) ==
    [key \in { create_key(d, classes[i]) : i \in 1 .. Len(classes) } |->
        classes[CHOOSE i \in 1 .. Len(classes) :
                  /\ create_key(d, classes[i]) = key
                  /\ \A j \in (i + 1) .. Len(classes) :
                        create_key(d, classes[j]) # key]]

RECURSIVE SelectLeaved(_, _, _)
\* selecting classes to leave: the first class seen for a key stays.
SelectLeaved(d, leaved_classes, classes) ==
    IF classes = <<>> THEN leaved_classes
    ELSE LET class_ == Head(classes)
             key    == create_key(d, class_)
         IN  SelectLeaved(d,
                          IF key \notin DOMAIN leaved_classes
                          THEN leaved_classes @@ (key :> class_)
                          ELSE leaved_classes,
                          Tail(classes))

\* Faulty variant of MissingEdge: edges are compared as objects, not by identity key.
MissingEdgeByObject(d, info, infos) ==
    \A i \in 1 .. Len(infos) : infos[i] # info

\* info not in infos
MissingEdge(d, info, infos) == ~HierarchyIn(d, info, infos)

\* infos[index].related_class = related_class
SetRelated(infos, index, related_class) ==
    [infos EXCEPT ![index].related_class = related_class]

\* One base_info of class_: the edge on leaved_class.bases and its mirror
\* on leaved_base.derived are appended, or found and re-pointed.
BaseStep(st, leaved_classes, class_, i) ==
    LET d            == st.d
        base_info    == d[class_].bases[i]
        leaved_class == leaved_classes[create_key(d, class_)]
        base_key     == create_key(d, base_info.related_class)
    IN  IF base_key \notin DOMAIN leaved_classes
        THEN [st EXCEPT !.err = "KeyError"]
        ELSE
        LET leaved_base      == leaved_classes[base_key]
            leaved_base_info == hierarchy_info_t(leaved_base, base_info.access)
            d1 == IF MissingEdge(d, leaved_base_info, d[leaved_class].bases)
                  THEN [d EXCEPT ![leaved_class].bases = Append(@, leaved_base_info)]
                  ELSE [d EXCEPT ![leaved_class].bases =
                            SetRelated(@, HierarchyIndex(d, leaved_base_info, @),
                                       leaved_base_info.related_class)]
            leaved_derived_for_base_info ==
                hierarchy_info_t(leaved_class, base_info.access)
            d2 == IF MissingEdge(d1, leaved_derived_for_base_info,
                                 d1[leaved_base].derived)
                  THEN [d1 EXCEPT ![leaved_base].derived =
                            Append(@, leaved_derived_for_base_info)]
                  ELSE [d1 EXCEPT ![leaved_base].derived =
                            SetRelated(@, HierarchyIndex(d1, leaved_derived_for_base_info, @),
                                       leaved_derived_for_base_info.related_class)]
        IN  [st EXCEPT !.d = d2]

\* Faulty variant of DerivedStep: the base list of the derived class is not
\* repaired.
DerivedStepOwnSide(st, leaved_classes, class_, i) ==
    LET d            == st.d
        derived_info == d[class_].derived[i]
        leaved_class == leaved_classes[create_key(d, class_)]
        derived_key  == create_key(d, derived_info.related_class)
    IN  IF derived_key \notin DOMAIN leaved_classes
        THEN [st EXCEPT !.err = "KeyError"]
        ELSE
        LET leaved_derived_info ==
                hierarchy_info_t(leaved_classes[derived_key], derived_info.access)
        IN  IF MissingEdge(d, leaved_derived_info, d[leaved_class].derived)
            THEN [st EXCEPT !.d[leaved_class].derived = Append(@, leaved_derived_info)]
            ELSE st

\* One derived_info of class_: missing edges are appended; an edge that is
\* found is left as it is.
DerivedStep(st, leaved_classes, class_, i) ==
    LET d            == st.d
        derived_info == d[class_].derived[i]
        leaved_class == leaved_classes[create_key(d, class_)]
        derived_key  == create_key(d, derived_info.related_class)
    IN  IF derived_key \notin DOMAIN leaved_classes
        THEN [st EXCEPT !.err = "KeyError"]
        ELSE
        LET leaved_derived      == leaved_classes[derived_key]
            leaved_derived_info == hierarchy_info_t(leaved_derived, derived_info.access)
            d1 == IF MissingEdge(d, leaved_derived_info, d[leaved_class].derived)
                  THEN [d EXCEPT ![leaved_class].derived =
                            Append(@, leaved_derived_info)]
                  ELSE d
            leaved_base_for_derived_info ==
                hierarchy_info_t(leaved_class, derived_info.access)
            d2 == IF MissingEdge(d1, leaved_base_for_derived_info,
                                 d1[leaved_derived].bases)
                  THEN [d1 EXCEPT ![leaved_derived].bases =
                            Append(@, leaved_base_for_derived_info)]
                  ELSE d1
        IN  [st EXCEPT !.d = d2]

RECURSIVE BasesLoop(_, _, _, _)
\* for base_info in class_.bases (the list is read as it is at each step)
BasesLoop(st, leaved_classes, class_, i) ==
    IF st.err # "" \/ i > Len(st.d[class_].bases) THEN st
    ELSE BasesLoop(BaseStep(st, leaved_classes, class_, i),
                   leaved_classes, class_, i + 1)

RECURSIVE DerivedLoop(_, _, _, _)
DerivedLoop(st, leaved_classes, class_, i) ==
    IF st.err # "" \/ i > Len(st.d[class_].derived) THEN st
    ELSE DerivedLoop(DerivedStep(st, leaved_classes, class_, i),
                     leaved_classes, class_, i + 1)

RECURSIVE HierarchyLoop(_, _, _)
HierarchyLoop(st, leaved_classes, classes) ==
    IF st.err # "" \/ classes = <<>> THEN st
    ELSE HierarchyLoop(
            DerivedLoop(BasesLoop(st, leaved_classes, Head(classes), 1),
                        leaved_classes, Head(classes), 1),
            leaved_classes, Tail(classes))

\* Faulty variant of IsLeaved: a class counts as leaved when its key is in the map.
IsLeavedByKey(leaved_classes, key, class_) == key \in DOMAIN leaved_classes

\* id( leaved_classes[key] ) == id( class_ )
IsLeaved(leaved_classes, key, class_) == leaved_classes[key] = class_

\* Faulty variant of DelById: the first entry of the list is deleted.
DelHead(declarations, id) == Tail(declarations)

\* del declarations[ declarations_ids.index( id(class_) ) ]
DelById(declarations, id) ==
    LET at == CHOOSE i \in 1 .. Len(declarations) :
                /\ declarations[i] = id
                /\ \A j \in 1 .. (i - 1) : declarations[j] # id
    IN  SubSeq(declarations, 1, at - 1)
        \o SubSeq(declarations, at + 1, Len(declarations))

\* One class of the removal loop; st is [d, answer, err].
RemoveStep(st, leaved_classes, class_) ==
    LET d == st.d
    IN  IF IsLeaved(leaved_classes, create_key(d, class_), class_) THEN st
        ELSE LET parent == d[class_].parent
                 declarations == IF parent # None THEN d[parent].declarations
                                 ELSE st.answer
             IN  IF class_ \notin Range(declarations)
                 THEN [st EXCEPT !.err = "ValueError"]
                 ELSE IF parent # None
                 THEN [st EXCEPT !.d[parent].declarations = DelById(@, class_)]
                 ELSE [st EXCEPT !.answer = DelById(@, class_)]

RECURSIVE RemoveLoop(_, _, _)
RemoveLoop(st, leaved_classes, classes) ==
    IF st.err # "" \/ classes = <<>> THEN st
    ELSE RemoveLoop(RemoveStep(st, leaved_classes, Head(classes)),
                    leaved_classes, Tail(classes))

\* Returns [d, answer, leaved_classes, err]; namespaces is edited in place.
_join_class_hierarchy(d, namespaces) ==
    LET classes        == ClassesOf(d, namespaces)
        leaved_classes == SelectLeaved(d, <<>>, classes)
        st1 == HierarchyLoop([d |-> d, answer |-> namespaces, err |-> ""],
                             leaved_classes, classes)
        st2 == RemoveLoop(st1, leaved_classes, classes)
    IN  [d |-> st2.d, answer |-> st2.answer, err |-> st2.err,
         leaved_classes |-> IF st2.err = "" THEN leaved_classes ELSE <<>>]

(***************************************************************************)
(* project_reader_t.__declarated_types                                     *)
(***************************************************************************)
RECURSIVE get_from_type(_)
RECURSIVE GetFromArgs(_)
GetFromArgs(args) ==
    IF args = <<>> THEN <<>>
    ELSE get_from_type(Head(args)) \o GetFromArgs(Tail(args))

\* The ids of the declarated_t wrappers found inside a type.
get_from_type(cpptype) ==
    IF cpptype.k = "None" THEN <<>>
    ELSE IF cpptype.k = "fundamental" THEN <<>>
    ELSE IF cpptype.k = "declarated" THEN << cpptype.w >>
    ELSE IF IsCompound(cpptype) THEN get_from_type(cpptype.base)
    ELSE IF IsCalldefType(cpptype)
    THEN get_from_type(cpptype.return_type) \o GetFromArgs(cpptype.arguments_types)
    ELSE <<>>

RECURSIVE TypesOfDecls(_, _)
TypesOfDecls(d, decls) ==
    IF decls = <<>> THEN <<>>
    ELSE LET decl == d[Head(decls)]
         IN  (IF IsCalldef(decl) THEN get_from_type(function_type(decl))
              ELSE IF decl.kind \in {"typedef", "variable"}
              THEN get_from_type(decl.type)
              ELSE <<>>)
             \o TypesOfDecls(d, Tail(decls))

__declarated_types(d, namespaces) == TypesOfDecls(d, make_flatten(d, namespaces))

(***************************************************************************)
(* project_reader_t._relink_declarated_types.  st is [wt, log]: the        *)
(* wrappers' targets and the names logger.error reported.                  *)
(***************************************************************************)
\* Faulty variant of LeavedFor: the lookup answers with a class of that key other
\* than the one the wrapper holds, when there is one.
LeavedForDuplicate(d, leaved_classes, declaration) ==
    LET key  == create_key(d, declaration)
        dups == { c \in DOMAIN d : /\ d[c].kind = "class"
                                   /\ create_key(d, c) = key
                                   /\ c # declaration }
    IN  IF dups = {} THEN leaved_classes[key] ELSE CHOOSE c \in dups : TRUE

\* Faulty variant of LeavedFor: the wrapper is given the declaration it already has.
LeavedForSelf(d, leaved_classes, declaration) == declaration

\* leaved_classes[ create_key(decl_wrapper_type.declaration) ]
LeavedFor(d, leaved_classes, declaration) ==
    leaved_classes[create_key(d, declaration)]

\* Faulty variant of RelinkStep: a class with no key in the map is passed over
\* without a report.
RelinkStepSilent(st, d, leaved_classes, w) ==
    LET declaration == st.wt[w]
    IN  IF d[declaration].kind = "class"
           /\ create_key(d, declaration) \in DOMAIN leaved_classes
        THEN [st EXCEPT !.wt[w] = leaved_classes[create_key(d, declaration)]]
        ELSE st

RelinkStep(st, d, leaved_classes, w) ==
    LET declaration == st.wt[w]
    IN  IF d[declaration].kind = "class"
        THEN IF create_key(d, declaration) \in DOMAIN leaved_classes
             THEN [st EXCEPT !.wt[w] = LeavedFor(d, leaved_classes, declaration)]
             ELSE [st EXCEPT !.log = Append(@, d[declaration].name)]
        ELSE st

RECURSIVE RelinkLoop(_, _, _, _)
RelinkLoop(st, d, leaved_classes, declarated_types) ==
    IF declarated_types = <<>> THEN st
    ELSE RelinkLoop(RelinkStep(st, d, leaved_classes, Head(declarated_types)),
                    d, leaved_classes, Tail(declarated_types))

_relink_declarated_types(wt, log, d, leaved_classes, declarated_types) ==
    RelinkLoop([wt |-> wt, log |-> log], d, leaved_classes, declarated_types)

(***************************************************************************)
(* project_reader_t.__parse_file_by_file as a state machine.               *)
(*   pc              the stage the driver has completed                    *)
(*   scope           where the headers declare their classes               *)
(*   files           the shapes of the files parsed so far                 *)
(*   namespaces      the per-file forests, in file order                   *)
(*   decls, wtarget  the heap: declarations and declarated_t wrappers      *)
(*   answer          the merged top-level list                             *)
(*   leaved_classes  the canonical map returned by _join_class_hierarchy   *)
(*   log             the class names reported through logger.error         *)
(*   bound           the arguments of the calls of bind_typedefs           *)
(*   result          what the call returned (<<>> until it returns)        *)
(*   raised          the exception that left the call, "" if none          *)
(* The type objects of cpptypes.py, for the properties of clone:           *)
(*   theap           the type_t objects, addressed by their place          *)
(*   troot, tclone   a type and the result of its clone(), 0 before it     *)
(*   tpc             "Built", "Cloned" or "Rewritten"; "none" in a merge   *)
(* The call of read_files:                                                 *)
(*   prj_files         the files argument, a list of entries               *)
(*   compilation_mode  the compilation_mode argument                       *)
(*   rpc               "read_files", then the parse function it called     *)
(*   info              the messages passed to logger.info                  *)
(*   self_config       start_with_declarations of the reader's own config  *)
(*   cloned_config     start_with_declarations of the clone made on entry  *)
(*   config            the object the local name config is bound to:       *)
(*                     "clone", "self", or "none" before the clone         *)
(*   parsed            start_with_declarations each file was read with     *)
(***************************************************************************)
VARIABLES pc, scope, files, namespaces, decls, wtarget, answer,
          leaved_classes, log, bound, result, raised,
          theap, troot, tclone, tpc,
          prj_files, compilation_mode, rpc, info,
          self_config, cloned_config, config, parsed

mvars == << pc, scope, files, namespaces, decls, wtarget, answer,
            leaved_classes, log, bound, result, raised >>

tvars == << theap, troot, tclone, tpc >>

rvars == << prj_files, compilation_mode, rpc, info,
            self_config, cloned_config, config, parsed >>

vars == << mvars, tvars, rvars >>

\* No call of read_files is under way.
NoReadCall ==
    /\ prj_files = <<>>
    /\ compilation_mode = "none"
    /\ rpc = "none"
    /\ info = <<>>
    /\ self_config = <<>>
    /\ cloned_config = <<>>
    /\ config = "none"
    /\ parsed = <<>>

Stages == << "Init", "JoinTopLevel", "JoinNested", "UnifyHierarchy", "Relink",
             "BindTypedefs", "Done" >>

Init ==
    /\ pc = "Init"
    /\ scope \in Scopes
    /\ files = <<>>
    /\ namespaces = <<>>
    /\ decls = [id \in Ids |-> NoDecl]
    /\ wtarget = [id \in Ids |-> None]
    /\ answer = <<>>
    /\ leaved_classes = <<>>
    /\ log = <<>>
    /\ bound = <<>>
    /\ result = <<>>
    /\ raised = ""
    /\ theap = <<>>
    /\ troot = 0
    /\ tclone = 0
    /\ tpc = "none"
    /\ NoReadCall

\* One turn of the loop over files: the reader parses the next file and its
\* forest is appended to namespaces.
ReadFile ==
    /\ pc = "Init"
    /\ Len(namespaces) < NFiles
    /\ \E p \in Shapes :
         LET f == Len(namespaces) + 1
         IN  /\ files' = Append(files, p)
             /\ namespaces' = Append(namespaces, ParsedForest(f, p, scope))
             /\ decls' = [id \in Ids |->
                            IF FileOf(id) = f
                            THEN ParsedDecl(f, p, scope, SlotOf(id))
                            ELSE decls[id]]
             /\ wtarget' = [id \in Ids |->
                              IF FileOf(id) = f THEN ParsedTarget(f, p, id)
                              ELSE wtarget[id]]
    /\ UNCHANGED << pc, scope, answer, leaved_classes, log, bound, result, raised >>
    /\ UNCHANGED << tvars, rvars >>

\* answer = []; for file_nss in namespaces: answer = _join_top_namespaces(...)
JoinTopLevel ==
    /\ pc = "Init"
    /\ Len(namespaces) >= 1
    /\ LET r == JoinAllFiles(decls, <<>>, namespaces)
       IN  /\ decls' = r.d
           /\ answer' = r.answer
    /\ pc' = "JoinTopLevel"
    /\ UNCHANGED << scope, files, namespaces, wtarget, leaved_classes, log,
                    bound, result, raised >>
    /\ UNCHANGED << tvars, rvars >>

\* for ns in answer: self._join_declarations( ns )
JoinNestedStage ==
    /\ pc = "JoinTopLevel"
    /\ LET st == JoinNested([d |-> decls, err |-> ""], wtarget, answer)
       IN  /\ decls' = st.d
           /\ raised' = st.err
           /\ pc' = IF st.err = "" THEN "JoinNested" ELSE "Aborted"
    /\ UNCHANGED << scope, files, namespaces, wtarget, answer, leaved_classes,
                    log, bound, result >>
    /\ UNCHANGED << tvars, rvars >>

\* Faulty variant of UnifyHierarchy: an exception of the stage is swallowed and the
\* driver goes on.
UnifyHierarchySwallowing ==
    /\ pc = "JoinNested"
    /\ LET r == _join_class_hierarchy(decls, answer)
       IN  /\ decls' = r.d
           /\ answer' = r.answer
           /\ leaved_classes' = r.leaved_classes
           /\ raised' = r.err
           /\ pc' = "UnifyHierarchy"
    /\ UNCHANGED << scope, files, namespaces, wtarget, log, bound, result >>
    /\ UNCHANGED << tvars, rvars >>

\* leaved_classes = self._join_class_hierarchy( answer )
UnifyHierarchy ==
    /\ pc = "JoinNested"
    /\ LET r == _join_class_hierarchy(decls, answer)
       IN  /\ decls' = r.d
           /\ answer' = r.answer
           /\ leaved_classes' = r.leaved_classes
           /\ raised' = r.err
           /\ pc' = IF r.err = "" THEN "UnifyHierarchy" ELSE "Aborted"
    /\ UNCHANGED << scope, files, namespaces, wtarget, log, bound, result >>
    /\ UNCHANGED << tvars, rvars >>

\* types = self.__declarated_types(answer)
\* self._relink_declarated_types( leaved_classes, types )
Relink ==
    /\ pc = "UnifyHierarchy"
    /\ LET types == __declarated_types(decls, answer)
           st    == _relink_declarated_types(wtarget, log, decls,
                                             leaved_classes, types)
       IN  /\ wtarget' = st.wt
           /\ log' = st.log
    /\ pc' = "Relink"
    /\ UNCHANGED << scope, files, namespaces, decls, answer, leaved_classes,
                    bound, result, raised >>
    /\ UNCHANGED << tvars, rvars >>

\* source_reader.bind_typedefs( make_flatten( answer ) ): the collaborator
\* is recorded by the argument it receives.
BindTypedefs ==
    /\ pc = "Relink"
    /\ bound' = Append(bound, make_flatten(decls, answer))
    /\ pc' = "BindTypedefs"
    /\ UNCHANGED << scope, files, namespaces, decls, wtarget, answer,
                    leaved_classes, log, result, raised >>
    /\ UNCHANGED << tvars, rvars >>

\* return answer
Done ==
    /\ pc = "BindTypedefs"
    /\ result' = answer
    /\ pc' = "Done"
    /\ UNCHANGED << scope, files, namespaces, decls, wtarget, answer,
                    leaved_classes, log, bound, raised >>
    /\ UNCHANGED << tvars, rvars >>

Next ==
    \/ ReadFile
    \/ JoinTopLevel
    \/ JoinNestedStage
    \/ UnifyHierarchy
    \/ Relink
    \/ BindTypedefs
    \/ Done

Spec == Init /\ [][Next]_vars

(***************************************************************************)
(* cpptypes.py on type objects.  A type_t object is a place of theap; its  *)
(* attributes name other objects by their place (0 is None) and a          *)
(* declarated_t names its declaration by id.  member_variable_type_t       *)
(* keeps the owning class in base.                                         *)
(***************************************************************************)
NoNode ==
    [k |-> "free", name |-> "", base |-> 0, size |-> 0, return_type |-> 0,
     arguments_types |-> <<>>, class_inst |-> 0, variable_type |-> 0,
     declaration |-> None, has_const |-> FALSE]

\* A constructor call: the new object takes the next place.
New(h, node) == [h |-> Append(h, node), at |-> Len(h) + 1]

\* The types the properties of clone are checked on: every constructor of
\* the grammar over the leaves int, ?unknown? and the class A, and one more
\* layer over those.
TypeLeaves == { fundamental_t("int"), unknown_t, declarated_t(2) }

TypeArgs == { <<>>, << fundamental_t("int") >>, << declarated_t(2) >>,
              << fundamental_t("int"), declarated_t(2) >> }

Compounds(bases) ==
    { const_t(b) : b \in bases } \cup { volatile_t(b) : b \in bases }
    \cup { pointer_t(b) : b \in bases } \cup { reference_t(b) : b \in bases }
    \cup { array_t(b, s) : b \in bases, s \in {-1, 2} }

Callables(returns) ==
    { free_function_type_t(r, a) : r \in returns, a \in TypeArgs }
    \cup { member_function_type_t(declarated_t(2), r, a, c) :
             r \in returns, a \in TypeArgs, c \in BOOLEAN }
    \cup { member_variable_type_t(declarated_t(2), r) : r \in returns }

TypeLayer1 == Compounds(TypeLeaves) \cup Callables(TypeLeaves)

TypeShapes ==
    TypeLeaves \cup TypeLayer1
    \cup { pointer_t(b) : b \in TypeLayer1 } \cup { const_t(b) : b \in TypeLayer1 }
    \cup Callables({ pointer_t(b) : b \in TypeLeaves })

RECURSIVE Build(_, _)
RECURSIVE BuildArgs(_, _)
BuildArgs(h, ts) ==
    IF ts = <<>> THEN [h |-> h, at |-> <<>>]
    ELSE LET a == Build(h, Head(ts))
             r == BuildArgs(a.h, Tail(ts))
         IN  [h |-> r.h, at |-> <<a.at>> \o r.at]

\* The objects the constructors make for a type, innermost first; the
\* declarated_t of a shape is built around the declaration it names.
Build(h, t) ==
    CASE t.k = "fundamental" ->
            New(h, [NoNode EXCEPT !.k = t.k, !.name = t.name])
      [] t.k = "unknown" -> New(h, [NoNode EXCEPT !.k = t.k])
      [] t.k = "declarated" ->
            New(h, [NoNode EXCEPT !.k = t.k, !.declaration = t.w])
      [] t.k \in {"volatile", "const", "pointer", "reference"} ->
            LET b == Build(h, t.base)
            IN  New(b.h, [NoNode EXCEPT !.k = t.k, !.base = b.at])
      [] t.k = "array" ->
            LET b == Build(h, t.base)
            IN  New(b.h, [NoNode EXCEPT !.k = t.k, !.base = b.at, !.size = t.size])
      [] t.k = "free_function" ->
            LET r == Build(h, t.return_type)
                a == BuildArgs(r.h, t.arguments_types)
            IN  New(a.h, [NoNode EXCEPT !.k = t.k, !.return_type = r.at,
                                        !.arguments_types = a.at])
      [] t.k = "member_function" ->
            LET c == Build(h, t.class_inst)
                r == Build(c.h, t.return_type)
                a == BuildArgs(r.h, t.arguments_types)
            IN  New(a.h, [NoNode EXCEPT !.k = t.k, !.class_inst = c.at,
                                        !.return_type = r.at,
                                        !.arguments_types = a.at,
                                        !.has_const = t.has_const])
      [] t.k = "member_variable" ->
            LET c == Build(h, t.base)
                v == Build(c.h, t.variable_type)
            IN  New(v.h, [NoNode EXCEPT !.k = t.k, !.base = c.at,
                                        !.variable_type = v.at])

RECURSIVE _create_decl_string(_, _, _)
RECURSIVE JoinArgStrings(_, _, _)
\* ','.join( map( lambda x: x.decl_string, arguments_types ) )
JoinArgStrings(d, h, args) ==
    IF args = <<>> THEN ""
    ELSE IF Len(args) = 1 THEN _create_decl_string(d, h, args[1])
    ELSE _create_decl_string(d, h, args[1]) \o "," \o JoinArgStrings(d, h, Tail(args))

\* '%d' % size
FormatSize(size) == IF size < 0 THEN "-" \o ToString(0 - size) ELSE ToString(size)

\* type_t.decl_string of the object at place n.
_create_decl_string(d, h, n) ==
    LET t == h[n]
    IN  CASE t.k = "unknown"     -> "?unknown?"
          [] t.k = "fundamental" -> t.name
          [] t.k = "declarated"  -> full_name(d, t.declaration)
          [] t.k = "volatile"    -> "volatile " \o _create_decl_string(d, h, t.base)
          [] t.k = "const"       -> _create_decl_string(d, h, t.base) \o " const"
          [] t.k = "pointer"     -> _create_decl_string(d, h, t.base) \o " *"
          [] t.k = "reference"   -> _create_decl_string(d, h, t.base) \o " &"
          [] t.k = "array"       -> _create_decl_string(d, h, t.base)
                                    \o "[" \o FormatSize(t.size) \o "]"
          [] t.k = "free_function" ->
                _create_decl_string(d, h, t.return_type) \o " (*)( "
                \o JoinArgStrings(d, h, t.arguments_types) \o " )"
          [] t.k = "member_function" ->
                _create_decl_string(d, h, t.return_type) \o " ( "
                \o _create_decl_string(d, h, t.class_inst) \o "::* )( "
                \o JoinArgStrings(d, h, t.arguments_types) \o " ) "
                \o (IF t.has_const THEN "const" ELSE "")
          [] t.k = "member_variable" ->
                _create_decl_string(d, h, t.variable_type) \o " ( "
                \o _create_decl_string(d, h, t.base) \o "::* )"

\* type_t.__eq__ of two type objects.
__eq__(d, h, n1, n2) == _create_decl_string(d, h, n1) = _create_decl_string(d, h, n2)

\* Faulty variant of ClonedArray: the copy is an array of unknown size.
ClonedArrayUnsized(h, base, size) ==
    New(h, [NoNode EXCEPT !.k = "array", !.base = base, !.size = -1])

\* array_t( self.base.clone(), self.size )
ClonedArray(h, base, size) ==
    New(h, [NoNode EXCEPT !.k = "array", !.base = base, !.size = size])

\* Faulty variant of ClonedDeclarated: the wrapper itself is returned.
ClonedDeclaratedSelf(h, n) == [h |-> h, at |-> n]

\* declarated_t( self.declaration )
ClonedDeclarated(h, n) ==
    New(h, [NoNode EXCEPT !.k = "declarated", !.declaration = h[n].declaration])

RECURSIVE clone(_, _)
RECURSIVE CloneArgs(_, _)
\* [ arg.clone() for arg in self.arguments_types ]
CloneArgs(h, args) ==
    IF args = <<>> THEN [h |-> h, at |-> <<>>]
    ELSE LET a == clone(h, Head(args))
             r == CloneArgs(a.h, Tail(args))
         IN  [h |-> r.h, at |-> <<a.at>> \o r.at]

\* type_t.clone: the _clone_impl of the object's class.  Returns the heap
\* with the new objects and the place of the answer.
clone(h, n) ==
    LET t == h[n]
    IN  CASE t.k \in {"unknown", "fundamental"} -> [h |-> h, at |-> n]
          [] t.k \in {"volatile", "const", "pointer", "reference"} ->
                LET b == clone(h, t.base)
                IN  New(b.h, [NoNode EXCEPT !.k = t.k, !.base = b.at])
          [] t.k = "array" ->
                LET b == clone(h, t.base)
                IN  ClonedArray(b.h, b.at, t.size)
          [] t.k = "free_function" ->
                LET r == IF t.return_type # 0 THEN clone(h, t.return_type)
                         ELSE [h |-> h, at |-> 0]
                    a == CloneArgs(r.h, t.arguments_types)
                IN  New(a.h, [NoNode EXCEPT !.k = t.k, !.return_type = r.at,
                                            !.arguments_types = a.at])
          [] t.k = "member_function" ->
                LET r == IF t.return_type # 0 THEN clone(h, t.return_type)
                         ELSE [h |-> h, at |-> 0]
                    a == CloneArgs(r.h, t.arguments_types)
                IN  New(a.h, [NoNode EXCEPT !.k = t.k,
                                            !.class_inst = t.class_inst,
                                            !.return_type = r.at,
                                            !.arguments_types = a.at,
                                            !.has_const = t.has_const])
          [] t.k = "member_variable" ->
                LET v == clone(h, t.variable_type)
                IN  New(v.h, [NoNode EXCEPT !.k = t.k, !.base = t.base,
                                            !.variable_type = v.at])
          [] t.k = "declarated" -> ClonedDeclarated(h, n)

RECURSIVE Reach(_, _)
\* The type objects a type refers to, itself included.
Reach(h, n) ==
    IF n = 0 THEN {}
    ELSE {n} \cup Reach(h, h[n].base) \cup Reach(h, h[n].return_type)
             \cup Reach(h, h[n].class_inst) \cup Reach(h, h[n].variable_type)
             \cup UNION { Reach(h, h[n].arguments_types[i]) :
                            i \in 1 .. Len(h[n].arguments_types) }

\* The declarations of one parsed header: the classes A and B1 at top level.
TypeDecls ==
    [id \in Ids |->
        IF FileOf(id) = 1
        THEN ParsedDecl(1, [hier |-> "AB1", moved |-> FALSE, funs |-> "none"],
                        "top", SlotOf(id))
        ELSE NoDecl]

\* A type of the grammar has been built by its constructors.
TypeInit ==
    /\ pc = "Types"
    /\ scope = "top"
    /\ files = <<>>
    /\ namespaces = <<>>
    /\ decls = TypeDecls
    /\ wtarget = [id \in Ids |-> None]
    /\ answer = <<>>
    /\ leaved_classes = <<>>
    /\ log = <<>>
    /\ bound = <<>>
    /\ result = <<>>
    /\ raised = ""
    /\ \E shape \in TypeShapes :
          LET b == Build(<<>>, shape)
          IN  theap = b.h /\ troot = b.at
    /\ tclone = 0
    /\ tpc = "Built"
    /\ NoReadCall

\* tclone = troot.clone()
Clone ==
    /\ tpc = "Built"
    /\ LET c == clone(theap, troot)
       IN  theap' = c.h /\ tclone' = c.at
    /\ tpc' = "Cloned"
    /\ UNCHANGED << mvars, rvars, troot >>

\* wrapper.declaration = other, for a declarated_t the clone refers to.
RewriteDeclaration ==
    /\ tpc = "Cloned"
    /\ \E n \in Reach(theap, tclone) :
          /\ theap[n].k = "declarated"
          /\ \E other \in {2, 3} \ {theap[n].declaration} :
                theap' = [theap EXCEPT ![n].declaration = other]
    /\ tpc' = "Rewritten"
    /\ UNCHANGED << mvars, rvars, troot, tclone >>

\* compound.base = char_t(), for a compound_t the clone refers to.
RewriteBase ==
    /\ tpc = "Cloned"
    /\ \E n \in Reach(theap, tclone) :
          /\ IsCompound(theap[n])
          /\ LET c == New(theap, [NoNode EXCEPT !.k = "fundamental", !.name = "char"])
             IN  theap' = [c.h EXCEPT ![n].base = c.at]
    /\ tpc' = "Rewritten"
    /\ UNCHANGED << mvars, rvars, troot, tclone >>

TypeNext == Clone \/ RewriteDeclaration \/ RewriteBase

TypeSpec == TypeInit /\ [][TypeNext]_vars

(***************************************************************************)
(* project_reader_t.read_files and get_os_file_names.  An entry of the     *)
(* files list is a string, a file_configuration_t with its content type,   *)
(* or some other object.                                                   *)
(***************************************************************************)
MaxEntries == 3

ALL_AT_ONCE == "all at once"

FILE_BY_FILE == "file by file"

ContentTypes == { "standard source file", "cached source file",
                  "gccxml generated file", "text" }

\* The start_with_declarations the reader was configured with, and those a
\* file_configuration_t may carry.
ConfiguredStart == << "S" >>

EntryStarts == { <<>>, << "X" >> }

Entries ==
    { [cls |-> "str", content_type |-> "", start_with_declarations |-> <<>>],
      [cls |-> "NoneType", content_type |-> "", start_with_declarations |-> <<>>] }
    \cup { [cls |-> "file_configuration_t", content_type |-> c,
            start_with_declarations |-> s] : c \in ContentTypes, s \in EntryStarts }

EntryLists == UNION { [1 .. n -> Entries] : n \in 0 .. MaxEntries }

\* Faulty variant of IsOsFile: every file_configuration_t counts as an OS file.
IsOsFileAnyConfiguration(f) == f.cls \in {"str", "file_configuration_t"}

\* The entry adds a name to fnames.
IsOsFile(f) ==
    \/ f.cls = "str"
    \/ /\ f.cls = "file_configuration_t"
       /\ f.content_type \in {"standard source file", "cached source file"}

\* The entries whose names get_os_file_names returns, in order.
get_os_file_names(fs) == SelectSeq(fs, IsOsFile)

SwitchMessage ==
    "Unable to parse files using ALL_AT_ONCE mode. "
    \o "There is some file configuration that is not file. "
    \o "pygccxml.parser.project_reader_t switches to FILE_BY_FILE mode."

\* read_files has been called with a list of files and a compilation mode.
ReadInit ==
    /\ pc = "Reader"
    /\ scope = "top"
    /\ files = <<>>
    /\ namespaces = <<>>
    /\ decls = [id \in Ids |-> NoDecl]
    /\ wtarget = [id \in Ids |-> None]
    /\ answer = <<>>
    /\ leaved_classes = <<>>
    /\ log = <<>>
    /\ bound = <<>>
    /\ result = <<>>
    /\ raised = ""
    /\ theap = <<>>
    /\ troot = 0
    /\ tclone = 0
    /\ tpc = "none"
    /\ prj_files \in EntryLists
    /\ compilation_mode \in {ALL_AT_ONCE, FILE_BY_FILE}
    /\ rpc = "read_files"
    /\ info = <<>>
    /\ self_config = ConfiguredStart
    /\ cloned_config = <<>>
    /\ config = "none"
    /\ parsed = <<>>

\* The body of read_files, up to the parse function it hands the files to.
read_files ==
    /\ rpc = "read_files"
    /\ IF /\ compilation_mode = ALL_AT_ONCE
          /\ Len(prj_files) = Len(get_os_file_names(prj_files))
       THEN /\ rpc' = "__parse_all_at_once"
            /\ info' = info
       ELSE /\ info' = IF compilation_mode = ALL_AT_ONCE
                       THEN Append(info, SwitchMessage) ELSE info
            /\ rpc' = "__parse_file_by_file"
    /\ UNCHANGED << mvars, tvars, prj_files, compilation_mode,
                    self_config, cloned_config, config, parsed >>

\* config_t.clone: a new object with a copy of the list.
config_clone(start_with_declarations) == start_with_declarations

\* config = self.__config.clone(), on entry to __parse_file_by_file
CloneConfig ==
    /\ rpc = "__parse_file_by_file"
    /\ config = "none"
    /\ cloned_config' = config_clone(self_config)
    /\ config' = "clone"
    /\ UNCHANGED << mvars, tvars, prj_files, compilation_mode, rpc, info,
                    self_config, parsed >>

\* One turn of  for prj_file in files:  up to the reader's read of the file.
\* A file_configuration_t empties and refills the list of the object config
\* names; any other entry binds config to the reader's own object.
ParseFile ==
    /\ rpc = "__parse_file_by_file"
    /\ config # "none"
    /\ Len(parsed) < Len(prj_files)
    /\ LET prj_file == prj_files[Len(parsed) + 1]
       IN  IF prj_file.cls = "file_configuration_t"
           THEN /\ config' = config
                /\ IF config = "clone"
                   THEN /\ cloned_config' = prj_file.start_with_declarations
                        /\ self_config' = self_config
                   ELSE /\ self_config' = prj_file.start_with_declarations
                        /\ cloned_config' = cloned_config
                /\ parsed' = Append(parsed, prj_file.start_with_declarations)
           ELSE /\ config' = "self"
                /\ UNCHANGED << self_config, cloned_config >>
                /\ parsed' = Append(parsed, self_config)
    /\ UNCHANGED << mvars, tvars, prj_files, compilation_mode, rpc, info >>

ReadNext == read_files \/ CloneConfig \/ ParseFile

ReadSpec == ReadInit /\ [][ReadNext]_vars

(***************************************************************************)
(* Vocabulary of the properties.                                           *)
(***************************************************************************)
Forest == Range(make_flatten(decls, answer))

ForestClasses == { id \in Forest : decls[id].kind = "class" }

Key(id) == create_key(decls, id)

\* The class is the canonical-map entry of its key and is in the forest.
IsCanonical(id) ==
    /\ id \in Forest
    /\ Key(id) \in DOMAIN leaved_classes
    /\ leaved_classes[Key(id)] = id

EdgesOf(id) ==
    { decls[id].bases[i] : i \in 1 .. Len(decls[id].bases) }
    \cup { decls[id].derived[i] : i \in 1 .. Len(decls[id].derived) }

RECURSIVE WrappersIn(_)
RECURSIVE WrappersInAll(_)
WrappersInAll(ts) ==
    IF ts = <<>> THEN {} ELSE WrappersIn(Head(ts)) \cup WrappersInAll(Tail(ts))

\* Every declarated_t node of a type tree, whatever it hangs under.
WrappersIn(t) ==
    CASE t.k = "declarated"      -> {t.w}
      [] t.k = "member_variable" -> WrappersIn(t.base) \cup WrappersIn(t.variable_type)
      [] t.k = "member_function" -> WrappersIn(t.class_inst) \cup WrappersIn(t.return_type)
                                    \cup WrappersInAll(t.arguments_types)
      [] t.k = "free_function"   -> WrappersIn(t.return_type)
                                    \cup WrappersInAll(t.arguments_types)
      [] IsCompound(t) /\ t.k # "member_variable" -> WrappersIn(t.base)
      [] OTHER -> {}

\* The wrappers of the type of a callable, variable or typedef.
WrappersOf(id) ==
    IF IsCalldef(decls[id]) THEN WrappersIn(function_type(decls[id]))
    ELSE IF decls[id].kind \in {"typedef", "variable"} THEN WrappersIn(decls[id].type)
    ELSE {}

ForestWrappers == UNION { WrappersOf(id) : id \in Forest }

ClassWrappers == { w \in ForestWrappers : decls[wtarget[w]].kind = "class" }

NoDanglingReference ==
    /\ \A c \in ForestClasses : \A e \in EdgesOf(c) : IsCanonical(e.related_class)
    /\ \A w \in ClassWrappers : IsCanonical(wtarget[w])

(***************************************************************************)
(* C1 as stated: after a merge that reaches Done every hierarchy edge of a *)
(* class in the merged forest and every class-targeting Declared wrapper   *)
(* of a callable, variable or typedef in it references a class that is in  *)
(* the forest and is the canonical-map entry of its key.                   *)
(***************************************************************************)
C1_AsStated == pc = "Done" => NoDanglingReference

\* The class objects the parses produced, and those of the returned forest.
InputClasses == { id \in Ids : decls[id].kind = "class" }

ResultClasses ==
    { id \in Range(make_flatten(decls, result)) : decls[id].kind = "class" }

\* The identity keys that two or more input forests hold a class for.
SharedKeys ==
    { Key(c) : c \in { x \in InputClasses :
                          \E y \in InputClasses : y # x /\ Key(y) = Key(x) } }

WithKey(classes, key) == { c \in classes : Key(c) = key }

UniqueKeys(classes) ==
    \A c1, c2 \in classes : Key(c1) = Key(c2) => c1 = c2

\* Every parse that holds a class of this qualified path holds it here.
UncontestedKey(key) ==
    \A c \in InputClasses : Key(c)[2] = key[2] => Key(c) = key

(***************************************************************************)
(* C2 as stated: the returned forest holds exactly one class object for    *)
(* every identity key that two or more input forests share, and no two     *)
(* distinct class objects of the flattened forest share a key.             *)
(***************************************************************************)
C2_AsStated ==
    pc = "Done" =>
        /\ UniqueKeys(ResultClasses)
        /\ \A key \in SharedKeys : Cardinality(WithKey(ResultClasses, key)) = 1

(***************************************************************************)
(* C2 amended: no two distinct class objects of the returned forest share  *)
(* an identity key, and a key shared by two or more input forests has      *)
(* exactly one object when no parse holds a class of the same qualified    *)
(* path at another location.                                               *)
(***************************************************************************)
C2_IdentityStability ==
    pc = "Done" =>
        /\ UniqueKeys(ResultClasses)
        /\ \A key \in SharedKeys :
               UncontestedKey(key) => Cardinality(WithKey(ResultClasses, key)) = 1

\* Three parentless duplicates of one class went in, one came out.
C2_Witness ==
    /\ pc = "Done"
    /\ scope = "top"
    /\ \E key \in SharedKeys :
           /\ Cardinality(WithKey(InputClasses, key)) = NFiles
           /\ Cardinality(WithKey(ResultClasses, key)) = 1

\* The class a wrapper was parsed with: the A of the wrapper's own file.
ParsedClassOf(w) == Id(FileOf(w), 2)

ForestFunctions == { id \in Forest : IsCalldef(decls[id]) }

(***************************************************************************)
(* C3: once Relink has run, every Declared wrapper in the parameter or     *)
(* return types of a function of the merged forest whose class has its key *)
(* in the canonical map targets the canonical object itself, which is the  *)
(* class held in the merged forest.                                        *)
(***************************************************************************)
C3_RelinkCompleteness ==
    pc \in {"Relink", "BindTypedefs", "Done"} =>
        \A f \in ForestFunctions : \A w \in WrappersOf(f) :
            Key(ParsedClassOf(w)) \in DOMAIN leaved_classes =>
                /\ wtarget[w] = leaved_classes[Key(ParsedClassOf(w))]
                /\ wtarget[w] \in ForestClasses

\* A surviving function whose parameter named a duplicate now names the
\* canonical class.
C3_Witness ==
    /\ pc = "Relink"
    /\ \E f \in ForestFunctions : \E w \in WrappersOf(f) :
           /\ wtarget[w] # ParsedClassOf(w)
           /\ wtarget[w] \in ForestClasses
           /\ Key(wtarget[w]) = Key(ParsedClassOf(w))

NoRepeatedEdge(infos) ==
    \A i, j \in 1 .. Len(infos) :
        i # j => ~HierarchyEq(decls, infos[i], infos[j])

EdgeNames(infos) == { decls[infos[i].related_class].name : i \in 1 .. Len(infos) }

\* Some parse saw the whole diamond and every parse has A at one location.
DiamondInput ==
    /\ Len(files) >= 2
    /\ \E i \in 1 .. Len(files) : files[i].hier = "diamond"
    /\ \A i, j \in 1 .. Len(files) : files[i].moved = files[j].moved

(***************************************************************************)
(* C4: for a diamond A, B1, B2, D parsed with A as several duplicates,     *)
(* after UnifyHierarchy the forest holds one A, A.derived is exactly an    *)
(* edge to B1 and an edge to B2, and no bases or derived list of a class   *)
(* of the forest repeats an edge (same access, same class key).            *)
(***************************************************************************)
C4_DiamondCollapse ==
    (pc \in {"UnifyHierarchy", "Relink", "BindTypedefs", "Done"} /\ DiamondInput) =>
        /\ Cardinality({ c \in ForestClasses : decls[c].name = "A" }) = 1
        /\ \A a \in ForestClasses :
               decls[a].name = "A" =>
                   /\ Len(decls[a].derived) = 2
                   /\ EdgeNames(decls[a].derived) = {"B1", "B2"}
        /\ \A c \in ForestClasses :
               NoRepeatedEdge(decls[c].bases) /\ NoRepeatedEdge(decls[c].derived)

\* Three parses, three A objects, the diamond among them, unified.
C4_Witness ==
    /\ pc = "UnifyHierarchy"
    /\ DiamondInput
    /\ Cardinality({ c \in InputClasses : decls[c].name = "A" }) = NFiles
    /\ \E i, j \in 1 .. Len(files) : files[i].hier = "AB1" /\ files[j].hier = "diamond"

\* Every file is namespace n { class A; class B1 : public A; } and no more.
IdenticalPairForests ==
    /\ scope = "ns"
    /\ Len(files) >= 2
    /\ \A i \in 1 .. Len(files) :
           files[i] = files[1] /\ files[i].hier = "AB1" /\ files[i].funs = "none"

(***************************************************************************)
(* C5: merging two or more identical forests namespace n { class C {};     *)
(* class D : public C {}; } (here C is A and D is B1) returns one          *)
(* namespace n holding one C and one D, with D.bases = [(C, public)] and   *)
(* C.derived = [(D, public)] naming the very objects n holds.              *)
(***************************************************************************)
C5_IdenticalForests ==
    (pc = "Done" /\ IdenticalPairForests) =>
        /\ Len(result) = 1
        /\ decls[result[1]].kind = "namespace"
        /\ decls[result[1]].name = "n"
        /\ LET held == decls[result[1]].declarations
           IN  /\ Len(held) = 2
               /\ decls[held[1]].name = "A" /\ decls[held[2]].name = "B1"
               /\ decls[held[2]].bases = << hierarchy_info_t(held[1], "public") >>
               /\ decls[held[1]].derived = << hierarchy_info_t(held[2], "public") >>
               /\ decls[held[1]].bases = <<>> /\ decls[held[2]].derived = <<>>

C5_Witness ==
    /\ pc = "Done"
    /\ IdenticalPairForests
    /\ Len(files) = NFiles

\* The namespaces of the merged top-level list.
AnswerNamespaces == { id \in Range(answer) : decls[id].kind = "namespace" }

FunctionsIn(d, ns) ==
    { id \in Range(d[ns].declarations) : IsCalldef(d[id]) }

(***************************************************************************)
(* C6: the step of the Namespace Joiner keeps, in each namespace, one      *)
(* callable for every signature the namespace held before it and no two    *)
(* signature-equal callables, and it adds none.                            *)
(***************************************************************************)
C6_OverloadPreservation ==
    [][ (pc = "JoinTopLevel" /\ pc' = "JoinNested") =>
          \A ns \in AnswerNamespaces :
             LET before == FunctionsIn(decls, ns)
                 after  == FunctionsIn(decls', ns)
             IN  /\ after \subseteq before
                 /\ \A f \in before : \E g \in after : CalldefEq(decls', wtarget', f, g)
                 /\ \A g1, g2 \in after :
                        CalldefEq(decls', wtarget', g1, g2) => g1 = g2 ]_vars

\* After the joiner n holds two overloads of f, and a third f, parsed with
\* a signature n already held, is gone from n.
C6_Witness ==
    /\ pc = "JoinNested"
    /\ \E ns \in AnswerNamespaces :
          /\ \E g1, g2 \in FunctionsIn(decls, ns) :
                 g1 # g2 /\ decls[g1].name = decls[g2].name
          /\ \E f \in Ids :
                 /\ IsCalldef(decls[f]) /\ decls[f].parent = ns
                 /\ f \notin Range(decls[ns].declarations)
                 /\ \E g \in FunctionsIn(decls, ns) : CalldefEq(decls, wtarget, f, g)

\* Two children of ns of one non-callable, non-namespace kind and one name
\* that are different declarations (different identity keys).
Collides(d, ns, i, j) ==
    LET held == d[ns].declarations
    IN  /\ i < j
        /\ d[held[i]].kind = d[held[j]].kind
        /\ d[held[i]].name = d[held[j]].name
        /\ d[held[i]].kind \notin {"function", "namespace"}
        /\ create_key(d, held[i]) # create_key(d, held[j])

NameCollision ==
    \E ns \in AnswerNamespaces :
        \E i, j \in 1 .. Len(decls[ns].declarations) : Collides(decls, ns, i, j)

(***************************************************************************)
(* C7 as stated: when a class, variable, typedef or enum collides by name  *)
(* with a different declaration of its kind under one namespace, the       *)
(* Namespace Joiner raises an assertion and the merge aborts.              *)
(***************************************************************************)
C7_AsStated ==
    [][ (pc = "JoinTopLevel" /\ NameCollision) =>
          (pc' = "Aborted" /\ raised' = "AssertionError") ]_vars

(***************************************************************************)
(* C7 amended: on such a collision the joiner's assertion holds (one       *)
(* declaration is recorded under the name); the joiner keeps the first     *)
(* declaration, drops every later one from the namespace's child list,      *)
(* raises nothing, and the merge goes on to UnifyHierarchy.                *)
(***************************************************************************)
C7_CollisionDropsLater ==
    [][ (pc = "JoinTopLevel" /\ NameCollision) =>
          /\ pc' = "JoinNested"
          /\ raised' = ""
          /\ \A ns \in AnswerNamespaces :
                \A i, j \in 1 .. Len(decls[ns].declarations) :
                   Collides(decls, ns, i, j) =>
                      LET held == decls[ns].declarations
                      IN  /\ held[j] \notin Range(decls'[ns].declarations)
                          /\ \E k \in 1 .. i :
                                /\ decls[held[k]].kind = decls[held[i]].kind
                                /\ decls[held[k]].name = decls[held[i]].name
                                /\ held[k] \in Range(decls'[ns].declarations) ]_vars

\* The joiner has run; n keeps one class A while another class A, parsed
\* at another line with n as its parent, is no longer a child of n.
C7_Witness ==
    /\ pc = "JoinNested"
    /\ \E ns \in AnswerNamespaces : \E kept \in Range(decls[ns].declarations) :
          \E gone \in InputClasses :
             /\ decls[kept].kind = "class"
             /\ decls[gone].name = decls[kept].name
             /\ decls[gone].parent = ns
             /\ decls[gone].line # decls[kept].line
             /\ gone \notin Range(decls[ns].declarations)

\* The wrappers Relink is handed, split by whether the canonical map has
\* the key of the class each was parsed with.
CollectedWrappers == Range(__declarated_types(decls, answer))

Unmapped(w) == Key(ParsedClassOf(w)) \notin DOMAIN leaved_classes

(***************************************************************************)
(* C8: once Relink has run, a collected wrapper whose class has no key in  *)
(* the canonical map still has the target it was parsed with and the       *)
(* class's name is in the log, every other collected wrapper has the       *)
(* canonical target, nothing was raised, and the next stages are enabled.  *)
(***************************************************************************)
C8_UnresolvedIsNonFatal ==
    /\ pc \in {"Relink", "BindTypedefs", "Done"} =>
          /\ raised = ""
          /\ \A w \in CollectedWrappers :
                IF Unmapped(w)
                THEN /\ wtarget[w] = ParsedClassOf(w)
                     /\ decls[ParsedClassOf(w)].name \in Range(log)
                ELSE wtarget[w] = leaved_classes[Key(ParsedClassOf(w))]
          /\ (log # <<>> => \E w \in CollectedWrappers : Unmapped(w))
    /\ pc = "Relink" => ENABLED BindTypedefs
    /\ pc = "BindTypedefs" => ENABLED Done

\* Done, with one wrapper left on its discarded class and reported, and
\* another wrapper of the same run re-pointed.
C8_Witness ==
    /\ pc = "Done"
    /\ log # <<>>
    /\ \E w1, w2 \in CollectedWrappers :
          /\ Unmapped(w1) /\ wtarget[w1] = ParsedClassOf(w1)
          /\ wtarget[w1] \notin Forest
          /\ ~Unmapped(w2) /\ wtarget[w2] # ParsedClassOf(w2)

\* A class of the forest has a hierarchy edge whose class has no key among
\* the classes of the forest, that is, none in the canonical map.
UnmappedEdge ==
    \E c \in ForestClasses : \E e \in EdgesOf(c) :
        \A x \in ForestClasses : Key(x) # Key(e.related_class)

(***************************************************************************)
(* C9 as stated: when a hierarchy edge of a class of the merged forest     *)
(* names a class whose key is absent from the canonical map,               *)
(* UnifyHierarchy leaves the edge as it is and the merge goes on.          *)
(***************************************************************************)
C9_AsStated ==
    [][ (pc = "JoinNested" /\ UnmappedEdge) =>
          (pc' = "UnifyHierarchy" /\ raised' = "") ]_vars

StageAfter(stage) ==
    CASE stage = "Init"           -> "JoinTopLevel"
      [] stage = "JoinTopLevel"   -> "JoinNested"
      [] stage = "JoinNested"     -> "UnifyHierarchy"
      [] stage = "UnifyHierarchy" -> "Relink"
      [] stage = "Relink"         -> "BindTypedefs"
      [] stage = "BindTypedefs"   -> "Done"
      [] OTHER                    -> "none"

(***************************************************************************)
(* C10: every step of the driver either parses one more file or moves to   *)
(* the next stage of Init, JoinTopLevel, JoinNested, UnifyHierarchy,       *)
(* Relink, BindTypedefs, Done; a stage that raises ends the run with no    *)
(* later stage; Relink starts from the finished canonical map and leaves   *)
(* it unchanged; bind_typedefs is called once, after Relink, with the      *)
(* flattened final forest.                                                 *)
(***************************************************************************)
C10_StageOrder ==
    [][ /\ pc \notin {"Done", "Aborted"}
        /\ pc' # pc => (pc' = StageAfter(pc) \/ pc' = "Aborted")
        /\ pc' = pc => (pc = "Init" /\ Len(namespaces') = Len(namespaces) + 1)
        /\ (pc' = "Aborted") <=> (raised' # "")
        /\ pc' = "Aborted" => (result' = <<>> /\ bound' = <<>>)
        /\ pc' = "Relink" =>
              /\ leaved_classes' = leaved_classes
              /\ leaved_classes =
                    SelectLeaved(decls, <<>>, ClassesOf(decls, answer))
        /\ leaved_classes' # leaved_classes => pc' = "UnifyHierarchy"
        /\ bound' # bound =>
              /\ pc = "Relink" /\ pc' = "BindTypedefs"
              /\ bound' = << make_flatten(decls', answer') >>
        /\ pc' = "Done" => (Len(bound') = 1 /\ result' = answer') ]_vars

\* A whole run: the call returned, after one call of bind_typedefs on the
\* flattened forest it returned, with wrappers relinked on the way.
C10_Witness ==
    /\ pc = "Done"
    /\ bound = << make_flatten(decls, result) >>
    /\ leaved_classes # <<>>
    /\ \E w \in CollectedWrappers : wtarget[w] # ParsedClassOf(w)

\* What a second call of _relink_declarated_types over the merged forest,
\* with the same canonical map, would leave behind.
RelinkAgain ==
    _relink_declarated_types(wtarget, log, decls, leaved_classes,
                             __declarated_types(decls, answer))

(***************************************************************************)
(* C11: once Relink has run, running it again over the merged forest with  *)
(* the same canonical map changes the target of no Declared wrapper.       *)
(***************************************************************************)
C11_IdempotentRelink ==
    pc \in {"Relink", "BindTypedefs", "Done"} => RelinkAgain.wt = wtarget

\* Relink has re-pointed one wrapper and has left another on a class with
\* no key in the map; a second run would visit both.
C11_Witness ==
    /\ pc = "Relink"
    /\ \E w1, w2 \in CollectedWrappers :
          /\ ~Unmapped(w1) /\ wtarget[w1] # ParsedClassOf(w1)
          /\ Unmapped(w2)

(***************************************************************************)
(* C12 as stated: once Relink has run, every Declared wrapper embedded at  *)
(* any depth of the type of a callable, variable or typedef of the merged  *)
(* forest (the owning class and the pointee of a member pointer included)  *)
(* was collected, and each one whose class has its key in the canonical    *)
(* map targets the canonical object.                                       *)
(***************************************************************************)
C12_AsStated ==
    pc \in {"Relink", "BindTypedefs", "Done"} =>
        /\ ForestWrappers \subseteq CollectedWrappers
        /\ \A w \in ForestWrappers :
              ~Unmapped(w) => wtarget[w] = leaved_classes[Key(ParsedClassOf(w))]


(***************************************************************************)
(* C13: for every type built from the grammar, the canonical rendering of  *)
(* its clone equals its own rendering, so the clone compares equal to it.  *)
(***************************************************************************)
C13_RenderingRoundTrip ==
    tpc = "Cloned" =>
        /\ _create_decl_string(decls, theap, tclone)
              = _create_decl_string(decls, theap, troot)
        /\ __eq__(decls, theap, tclone, troot)

\* The clone of a pointer to a const member function of A that takes an int
\* and an A: a new object with the rendering of the original.
C13_Witness ==
    /\ tpc = "Cloned"
    /\ tclone # troot
    /\ _create_decl_string(decls, theap, tclone) = "int ( ::A::* )( int,::A ) const *"

\* What the original type refers to: its objects with their attributes.
OrigView == [n \in Reach(theap, troot) |-> theap[n]]

\* The objects both the original and its clone refer to.
SharedNodes == Reach(theap, tclone) \cap Reach(theap, troot)

LeafNodes == { n \in DOMAIN theap : theap[n].k \in {"fundamental", "unknown"} }

\* The objects under the owning-class reference of a member-function or
\* member-variable-pointer type the clone refers to.
OwnerNodes ==
    UNION { IF theap[n].k = "member_function" THEN Reach(theap, theap[n].class_inst)
            ELSE IF theap[n].k = "member_variable" THEN Reach(theap, theap[n].base)
            ELSE {} : n \in Reach(theap, tclone) }

\* The objects a step has changed.
Touched == { n \in DOMAIN theap : theap'[n] # theap[n] }

(***************************************************************************)
(* C14 as stated: clone(t) shares with t only Fundamental and Unknown      *)
(* instances (and Declaration objects), and rewriting a Declared wrapper's *)
(* target or a compound's base anywhere inside the clone, the owning-class *)
(* reference of a member type included, leaves what t refers to unchanged. *)
(***************************************************************************)
C14_AsStated ==
    [][ /\ (tpc = "Built" /\ tpc' = "Cloned") => (SharedNodes \subseteq LeafNodes)'
        /\ (tpc = "Cloned" /\ tpc' = "Rewritten") => OrigView' = OrigView ]_vars

(***************************************************************************)
(* C14 amended: clone(t) shares with t the Fundamental and Unknown         *)
(* instances, the Declaration objects and the owning-class reference of    *)
(* each member-function and member-variable-pointer type, with all under   *)
(* it; every other object of the clone is new.  Rewriting a target or a    *)
(* base at a new object leaves what t refers to unchanged; rewriting the   *)
(* target of a shared owning-class wrapper changes t as well.              *)
(***************************************************************************)
C14_CloneSharing ==
    [][ /\ (tpc = "Built" /\ tpc' = "Cloned") =>
              /\ (SharedNodes \subseteq (LeafNodes \cup OwnerNodes))'
              /\ (OwnerNodes \subseteq SharedNodes)'
              /\ \A n \in Reach(theap', tclone') \ (LeafNodes \cup OwnerNodes)' :
                    n \notin DOMAIN theap
              /\ OrigView' = OrigView
        /\ (tpc = "Cloned" /\ tpc' = "Rewritten") =>
              IF Touched \cap OwnerNodes = {}
              THEN OrigView' = OrigView
              ELSE /\ OrigView' # OrigView
                   /\ _create_decl_string(decls', theap', troot')
                         # _create_decl_string(decls, theap, troot) ]_vars

\* A member function type of A taking an A was cloned and the parameter's
\* wrapper rewritten in the clone: the clone names B1 there, the original
\* still names A, and both hold the one owning-class wrapper.
C14_Witness ==
    /\ tpc = "Rewritten"
    /\ theap[troot].k = "member_function"
    /\ theap[tclone].class_inst = theap[troot].class_inst
    /\ Len(theap[troot].arguments_types) = 1
    /\ theap[theap[troot].arguments_types[1]].declaration = 2
    /\ theap[theap[tclone].arguments_types[1]].declaration = 3


CanonicalClasses == { c \in ForestClasses : IsCanonical(c) }

\* hierarchy_info_t( class_, access ) in infos: edges are equal when they
\* have the same access and their classes the same identity key.
HasEdge(infos, class_, access) ==
    HierarchyIn(decls, hierarchy_info_t(class_, access), infos)

Accesses == {"public", "protected", "private"}

(***************************************************************************)
(* C15: after UnifyHierarchy, for all canonical classes X and Y and every  *)
(* access a, X.bases holds an edge equal to (Y, a) exactly when Y.derived  *)
(* holds an edge equal to (X, a); the parsed forests are mirror-symmetric. *)
(***************************************************************************)
C15_MirrorSymmetry ==
    pc \in {"UnifyHierarchy", "Relink", "BindTypedefs", "Done"} =>
        \A X, Y \in CanonicalClasses : \A a \in Accesses :
            HasEdge(decls[X].bases, Y, a) <=> HasEdge(decls[Y].derived, X, a)

\* The canonical A comes from a parse that saw no class derived from it; a
\* later parse brought B1, and the two now name each other.
C15_Witness ==
    /\ pc = "UnifyHierarchy"
    /\ \E X, Y \in CanonicalClasses :
          /\ files[FileOf(Y)].hier = "A"
          /\ FileOf(X) # FileOf(Y)
          /\ HasEdge(decls[X].bases, Y, "public")
          /\ HasEdge(decls[Y].derived, X, "public")
          /\ decls[X].bases[1].related_class = Y


\* No two namespaces of one name among these siblings.
NoTwinNamespaces(siblings) ==
    \A i, j \in 1 .. Len(siblings) :
        (/\ i # j
         /\ decls[siblings[i]].kind = "namespace"
         /\ decls[siblings[j]].kind = "namespace")
        => decls[siblings[i]].name # decls[siblings[j]].name

ForestNamespaces == { id \in Forest : decls[id].kind = "namespace" }

\* The namespaces the parses produced that the merged forest no longer holds.
FoldedNamespaces ==
    { id \in Ids : decls[id].kind = "namespace" /\ id \notin Forest }

\* The children the parser gave a declaration.
ParsedChildren(id) ==
    Range(ParsedDecl(FileOf(id), files[FileOf(id)], scope, SlotOf(id)).declarations)

\* The namespaces of the forest at the qualified path of a folded one.
Survivors(id) ==
    { s \in ForestNamespaces :
        declaration_path(decls, s) = declaration_path(decls, id) }

(***************************************************************************)
(* C16: after JoinTopLevel and JoinNested no sibling list of the merged    *)
(* forest, the top-level list or a namespace's child list, holds two       *)
(* namespaces of one name, and every declaration parsed as a child of a    *)
(* namespace that was folded away is a child of the one surviving          *)
(* namespace of that name, with its parent link on the survivor, or is no  *)
(* longer in the forest.                                                   *)
(***************************************************************************)
C16_NamespaceFolding ==
    pc \in {"JoinNested", "UnifyHierarchy", "Relink", "BindTypedefs", "Done"} =>
        /\ NoTwinNamespaces(answer)
        /\ \A ns \in ForestNamespaces : NoTwinNamespaces(decls[ns].declarations)
        /\ \A g \in FoldedNamespaces :
              /\ Cardinality(Survivors(g)) = 1
              /\ \A x \in ParsedChildren(g) :
                    \/ x \notin Forest
                    \/ \E s \in Survivors(g) :
                          /\ x \in Range(decls[s].declarations)
                          /\ decls[x].parent = s

\* Three parses of n::m were folded into one: the survivor adopted an
\* overload of f from a folded m, and another f of a folded m was dropped.
C16_Witness ==
    /\ pc = "JoinNested"
    /\ \E g1, g2 \in FoldedNamespaces :
          /\ decls[g1].name = "m" /\ decls[g2].name = "m"
          /\ \E x \in ParsedChildren(g1) : \E s \in Survivors(g1) :
                x \in Range(decls[s].declarations) /\ decls[x].parent = s
          /\ \E y \in ParsedChildren(g2) : y \notin Forest


\* The first class with this key in the list.
FirstWithKey(d, classes, key) ==
    classes[CHOOSE i \in 1 .. Len(classes) :
              /\ create_key(d, classes[i]) = key
              /\ \A j \in 1 .. (i - 1) : create_key(d, classes[j]) # key]

(***************************************************************************)
(* C17: the canonical map UnifyHierarchy returns has exactly the identity  *)
(* keys of the classes of the flattened forest, maps each key to the first *)
(* class with that key in flattened order, every value is a class whose    *)
(* own key is the map key, and after the removal step a class of the       *)
(* flattened list is in the forest exactly when it is its key's value.     *)
(***************************************************************************)
C17_CanonicalSelection ==
    [][ (pc = "JoinNested" /\ pc' = "UnifyHierarchy") =>
          LET classes == ClassesOf(decls, answer)
              keys    == { create_key(decls, classes[i]) : i \in 1 .. Len(classes) }
              after   == Range(make_flatten(decls', answer'))
          IN  /\ DOMAIN leaved_classes' = keys
              /\ \A key \in keys :
                    /\ leaved_classes'[key] = FirstWithKey(decls, classes, key)
                    /\ decls'[leaved_classes'[key]].kind = "class"
                    /\ create_key(decls', leaved_classes'[key]) = key
              /\ \A c \in Range(classes) :
                    c \in after <=> leaved_classes'[create_key(decls, c)] = c ]_vars

\* Three parses put class A at top level, two of them at one location: the
\* first of the two is the map value and stays, the second is gone, and the
\* A at the other location stays under its own key.
C17_Witness ==
    /\ pc = "UnifyHierarchy"
    /\ scope = "top"
    /\ \E c1, c2, c3 \in InputClasses :
          /\ decls[c1].name = "A" /\ decls[c2].name = "A" /\ decls[c3].name = "A"
          /\ c1 < c2
          /\ Key(c1) = Key(c2) /\ Key(c3) # Key(c1)
          /\ leaved_classes[Key(c1)] = c1 /\ leaved_classes[Key(c3)] = c3
          /\ c1 \in Forest /\ c3 \in Forest /\ c2 \notin Forest


\* The declarations the parser produced for the files read so far.
ParsedObjects ==
    UNION { { Id(f, s) : s \in { s \in 1 .. PerFile :
                                   ParsedDecl(f, files[f], scope, s).kind # "none" } } :
            f \in 1 .. Len(files) }

\* The list without the classes of the flattened forest that are not the
\* canonical-map value of their key, the rest in the order it had.
WithoutDuplicates(siblings, classes, leaved) ==
    SelectSeq(siblings,
              LAMBDA x : ~(x \in Range(classes) /\ leaved[create_key(decls, x)] # x))

(***************************************************************************)
(* C18: every declaration of the merged forest is an object the parser     *)
(* produced for one of the files, and the removal step of UnifyHierarchy   *)
(* takes out of each child list, and out of the top-level list, exactly    *)
(* the duplicate class instances, leaving the canonical classes and every  *)
(* other child in their order.                                             *)
(***************************************************************************)
C18_OnlyRedundantRemoved ==
    [][ /\ Range(make_flatten(decls', answer')) \subseteq ParsedObjects'
        /\ (pc = "JoinNested" /\ pc' = "UnifyHierarchy") =>
              LET classes == ClassesOf(decls, answer)
              IN  /\ answer' = WithoutDuplicates(answer, classes, leaved_classes')
                  /\ \A p \in Ids :
                        decls'[p].declarations =
                           WithoutDuplicates(decls[p].declarations, classes,
                                             leaved_classes') ]_vars

\* Duplicates of top-level classes were taken out of the top-level list,
\* which still holds the namespace and two or more classes.
C18_Witness ==
    /\ pc = "UnifyHierarchy"
    /\ scope = "top"
    /\ Len(answer) >= 3
    /\ \E c \in InputClasses :
          /\ c \notin Forest
          /\ decls[c].parent = None
          /\ leaved_classes[Key(c)] # c
    /\ \E ns \in ForestNamespaces : Len(decls[ns].declarations) >= 2


\* How many times x occurs in the list.
Occurrences(siblings, x) ==
    Cardinality({ i \in 1 .. Len(siblings) : siblings[i] = x })

\* The declarations that hold x in their child list.
HoldersOf(x) == { p \in Ids : x \in Range(decls[p].declarations) }

(***************************************************************************)
(* C19: after a merge that reaches Done, every declaration of the          *)
(* flattened merged forest occurs in exactly one child list, once: the     *)
(* list of the declaration its parent link names, which is in the forest,  *)
(* or the top-level list when it has no parent.                            *)
(***************************************************************************)
C19_ParentChildConsistency ==
    pc = "Done" =>
        \A x \in Forest :
            IF decls[x].parent = None
            THEN /\ HoldersOf(x) = {}
                 /\ Occurrences(result, x) = 1
            ELSE /\ HoldersOf(x) = { decls[x].parent }
                 /\ Occurrences(decls[decls[x].parent].declarations, x) = 1
                 /\ Occurrences(result, x) = 0
                 /\ decls[x].parent \in Forest

\* Done, with a function adopted by the surviving n::m from another file's
\* m, and a top-level duplicate class removed.
C19_Witness ==
    /\ pc = "Done"
    /\ \E x \in Forest :
          /\ IsCalldef(decls[x])
          /\ decls[decls[x].parent].name = "m"
          /\ FileOf(decls[x].parent) # FileOf(x)
    /\ \E c \in InputClasses : c \notin Forest


\* The entry is a plain file name or a configuration of a source file.
OsFileEntry(f) ==
    << f.cls, f.content_type >>
        \in { << "str", "" >>,
              << "file_configuration_t", "standard source file" >>,
              << "file_configuration_t", "cached source file" >> }

NotAFileEntry(f) ==
    f.cls = "file_configuration_t"
    /\ f.content_type \in {"text", "gccxml generated file"}

(***************************************************************************)
(* C20: with ALL_AT_ONCE read_files parses the files as one chunk exactly  *)
(* when every entry is an OS file (a string, or a configuration with       *)
(* content type STANDARD_SOURCE_FILE or CACHED_SOURCE_FILE); when some     *)
(* entry is a TEXT or GCCXML_GENERATED_FILE configuration it logs the      *)
(* switch and parses file by file; with FILE_BY_FILE it always parses      *)
(* file by file, and logs nothing.                                         *)
(***************************************************************************)
C20_ModeSelection ==
    rpc \in {"__parse_all_at_once", "__parse_file_by_file"} =>
        LET allOs == \A i \in 1 .. Len(prj_files) : OsFileEntry(prj_files[i])
            someNot == \E i \in 1 .. Len(prj_files) : NotAFileEntry(prj_files[i])
        IN  /\ compilation_mode = ALL_AT_ONCE =>
                  /\ (rpc = "__parse_all_at_once") <=> allOs
                  /\ someNot => (rpc = "__parse_file_by_file" /\ info = << SwitchMessage >>)
                  /\ allOs => info = <<>>
            /\ compilation_mode = FILE_BY_FILE =>
                  (rpc = "__parse_file_by_file" /\ info = <<>>)

\* ALL_AT_ONCE was asked for a file name, a cached source file and a text:
\* the switch was logged and the files go to the file-by-file parse.
C20_Witness ==
    /\ rpc = "__parse_file_by_file"
    /\ compilation_mode = ALL_AT_ONCE
    /\ info = << SwitchMessage >>
    /\ Len(prj_files) = 3
    /\ prj_files[1].cls = "str"
    /\ prj_files[2].content_type = "cached source file"
    /\ prj_files[3].content_type = "text"


(***************************************************************************)
(* C21 as stated: in a FILE_BY_FILE call of read_files, whatever mix of    *)
(* file names and file_configuration_t entries it is given, the reader's   *)
(* own start_with_declarations stays what it was configured with, every    *)
(* file_configuration_t is parsed with its own start_with_declarations,    *)
(* and every plain file name with the reader's configured ones.            *)
(***************************************************************************)
C21_AsStated ==
    (compilation_mode = FILE_BY_FILE /\ rpc = "__parse_file_by_file") =>
        /\ self_config = ConfiguredStart
        /\ \A i \in 1 .. Len(parsed) :
              /\ prj_files[i].cls = "file_configuration_t" =>
                    parsed[i] = prj_files[i].start_with_declarations
              /\ prj_files[i].cls = "str" => parsed[i] = ConfiguredStart


====
